---- MODULE Spec2Model ----
(***************************************************************************)
(* A model of src/PyserSSH/extensions/remodesk.py: the RemoDesk screen     *)
(* streaming protocol.  handle_new_client (attach) registers a viewer and, *)
(* when the `first` flag is set, starts the Broadcaster thread             *)
(* (_handle_client) and the FrameProducer thread (_capture); it always     *)
(* starts a CommandChannel thread (_handle_client_commands).  All threads  *)
(* are preemptible and share listclient, first, running and the bounded    *)
(* queue `buffer` with no lock besides the queue's own.                    *)
(*                                                                         *)
(* Each action is a stretch of one thread's code that makes at most one    *)
(* access to shared state that another thread can interfere with: each of  *)
(* lines 129, 130-131, 133 and 135 of the attach, each step of the for     *)
(* loop of line 58, the sendall of line 60, the close and remove of 62-63, *)
(* the loop test, the capture, the activity gate and the encoding of       *)
(* _capture are steps of their own, as are the blocking calls (handshake,  *)
(* queue get and put, recv).  Variables that the program does not have     *)
(* (hist_*, and the pending field of a Broadcaster) record history for the *)
(* properties.                                                             *)
(*                                                                         *)
(* SpecH is the program with two connections and one frame, SpecQ with one *)
(* connection and enough frames to fill the queue; Spec has two            *)
(* connections and two frames, with viewers that send no command and a     *)
(* screen that is captured every time.  LiveQ adds fair scheduling of the  *)
(* threads to SpecQ.  SpecR follows one command channel byte by byte       *)
(* through _receive_exact (variable rx, idle in the others).               *)
(***************************************************************************)
EXTENDS Integers, Sequences, FiniteSets, TLC

\* ---------------------------------------------------------------- bounds
NViewers == 2          \* connections that call handle_new_client, once each
MaxFrames == 2         \* wire frames pushed in one behaviour of Spec
MaxStream == 10        \* bytes a viewer sends on its command channel in SpecR
QFrames == 12          \* wire frames pushed in one behaviour of SpecQ
HFrames == 1           \* wire frames pushed in one behaviour of SpecH

\* ------------------------------------------------------ program constants
BufferCap == 10        \* queue.Queue(maxsize=10)
ActivityFloor == 500   \* non_zero_count > 500

Viewers == 1..NViewers
\* Each call of handle_new_client starts at most one _handle_client and one
\* _capture thread, so one slot per connection holds every thread started.
BSlots == 1..NViewers
PSlots == 1..NViewers

None == "None"
EmptyFrame == "b''"              \* what _capture_screen returns on failure
\* Screens ImageGrab.grab() may return, each with the number of pixels in which
\* it differs from a blank screen (the lit pixels of a smaller are lit in a larger).
Lit == [blank |-> 0, dim |-> 1, busy |-> 501]
Images == DOMAIN Lit

\* Every result of _capture_screen (162-170).
Grabs == Images \cup {EmptyFrame}

\* screenshot.size of every screen ImageGrab.grab() returns.
NativeSize == <<1920, 1090>>
\* The reference _translate_coordinates falls back to (lines 219-220).
DefaultReference == <<1920, 1090>>
\* Pointer coordinates a move_mouse command may carry.
Coords == {-5, 0, 960}

VARIABLES
    listclient,      \* self.listclient: the viewer registry, in order
    first,           \* self.first
    running,         \* self.running
    buffer,          \* self.buffer: queue.Queue(maxsize=10), of frame ids
    threshold,       \* self.threshold (activity_threshold; 0 = not set)
    previous_frame,  \* self.previous_frame
    screensize,      \* self.screensize: () until a capture succeeds
    resolution,      \* self.resolution: <<>> while it is falsy (None or ())
    apc,             \* per viewer: position of its handle_new_client call
    cpc,             \* per viewer: position of its _handle_client_commands thread
    broken,          \* per viewer: its channel is closed (sendall raises, recv ends)
    bc,              \* per Broadcaster slot: the _handle_client thread
    pr,              \* per producer slot: position of the _capture thread
    hist_pushed,     \* number of frames put on the queue so far (frame ids are 1..)
    hist_popped,     \* ids of the frames taken from the queue, in the order taken
    hist_last,       \* per viewer: id of the last frame sendall delivered to it
    hist_sent,       \* per viewer: ids of the frames sendall delivered to it, in order
    rx               \* one command channel at the level of bytes (SpecR)

vars == <<listclient, first, running, buffer, threshold, previous_frame,
          screensize, resolution,
          apc, cpc, broken, bc, pr, hist_pushed, hist_popped,
          hist_last, hist_sent, rx>>

\* ------------------------------------------------------------- helpers

InList(s, x) == \E i \in 1..Len(s) : s[i] = x

\* The sequence s, which holds x, without its first element equal to x.
RECURSIVE RemoveFirst(_, _)
RemoveFirst(s, x) ==
    IF Head(s) = x THEN Tail(s) ELSE <<Head(s)>> \o RemoveFirst(Tail(s), x)

\* list.remove(x): drops the first element equal to x, and raises ValueError
\* (the list is left as it was) when no element is equal to x.
ListRemove(s, x) ==
    IF InList(s, x) THEN [raises |-> FALSE, list |-> RemoveFirst(s, x)]
    ELSE [raises |-> TRUE, list |-> s]

SeqToSet(s) == {s[i] : i \in 1..Len(s)}

\* cur: the entry the for loop of line 58 holds in iclient (0: none).
BIdle == [pc |-> "none", frame |-> 0, idx |-> 0, cur |-> 0, pending |-> {}]

\* The local variables of a _capture thread that is not running; img is the
\* screen_image of line 231 while it is still to be read, active the
\* comparison of line 194 between lines 188 and 194.
PIdle == [pc |-> "none", img |-> None, active |-> FALSE]

BAliveSet == {b \in BSlots : bc[b].pc # "none"}
PAliveSet == {p \in PSlots : pr[p].pc # "none"}

\* threading.Thread(...).start(): the new thread takes the lowest slot that
\* holds no live thread.
Lowest(S) == CHOOSE x \in S : \A y \in S : x <= y
FreeB == {b \in BSlots : bc[b].pc = "none"}
FreeP == {p \in PSlots : pr[p].pc = "none"}

\* ---------------------------------------------------------------- Init
\* Protocol.__init__ (46-51) and RemoDesk.__init__ (151-160); the activity
\* threshold is configuration (0: not set), the resolution is left at its
\* default (None).
InitState ==
    /\ listclient = <<>>
    /\ first = TRUE
    /\ running = FALSE
    /\ buffer = <<>>
    /\ threshold \in {0, 1}
    /\ previous_frame = None
    /\ screensize = <<>>
    /\ resolution = <<>>
    /\ apc = [v \in Viewers |-> "idle"]
    /\ cpc = [v \in Viewers |-> "none"]
    /\ broken = [v \in Viewers |-> FALSE]
    /\ bc = [b \in BSlots |-> BIdle]
    /\ pr = [p \in PSlots |-> PIdle]
    /\ hist_pushed = 0
    /\ hist_popped = <<>>
    /\ hist_last = [v \in Viewers |-> 0]
    /\ hist_sent = [v \in Viewers |-> <<>>]

\* No byte-level command channel is followed.
RxIdle == [pc |-> "idle", orig |-> <<>>, stream |-> <<>>, n |-> 0, data |-> <<>>,
           recvs |-> 0, msgs |-> 0, dispatched |-> <<>>, why |-> "none"]

Init == InitState /\ rx = RxIdle

\* ------------------------------------------- handle_new_client (attach)

\* Lines 116-124: with a direct channel no handshake is made; otherwise
\* open_new_subchannel(5) answers (id, channel), either of them None when the
\* client did not connect within the timeout, and the call returns.
HandshakeResult(direct, id, channel) ==
    IF direct THEN "ok"
    ELSE IF id = None \/ channel = None THEN "timedout"
    ELSE "ok"

\* The append moved above the timeout test of lines 122-124.
RegistryAppendBeforeTest(reg, v, result) == Append(reg, v)

\* Line 126, reached only past the handshake:
\* self.listclient.append([client, id, channel])
RegistryAfterHandshake(reg, v, result) ==
    IF result = "ok" THEN Append(reg, v) ELSE reg

\* Lines 116-126: the handshake and, when it succeeds, the append.
Handshake(v) ==
    /\ apc[v] \in {"idle", "timedout"}
    /\ \E direct \in BOOLEAN, id \in {None, "id"}, channel \in {None, "channel"} :
          LET result == HandshakeResult(direct, id, channel) IN
          /\ listclient' = RegistryAfterHandshake(listclient, v, result)
          /\ apc' = [apc EXCEPT ![v] = IF result = "ok" THEN "checkfirst" ELSE "timedout"]
    /\ UNCHANGED <<first, running, buffer, threshold, previous_frame,
                   screensize, resolution,
                   cpc, broken, bc, pr, hist_pushed, hist_popped,
                   hist_last, hist_sent, rx>>

\* Line 128: if self.first
CheckFirst(v) ==
    /\ apc[v] = "checkfirst"
    /\ apc' = [apc EXCEPT ![v] = IF first THEN "setrunning" ELSE "startcmd"]
    /\ UNCHANGED <<listclient, first, running, buffer, threshold, previous_frame,
                   screensize, resolution, cpc, broken, bc, pr,
                   hist_pushed, hist_popped, hist_last, hist_sent, rx>>

\* Line 129: self.running = True
SetRunning(v) ==
    /\ apc[v] = "setrunning"
    /\ running' = TRUE
    /\ apc' = [apc EXCEPT ![v] = "startbroadcaster"]
    /\ UNCHANGED <<listclient, first, buffer, threshold, previous_frame,
                   screensize, resolution, cpc, broken, bc, pr,
                   hist_pushed, hist_popped, hist_last, hist_sent, rx>>

\* Lines 130-131: the _handle_client thread is started; it is at line 55.
StartBroadcaster(v) ==
    /\ apc[v] = "startbroadcaster"
    /\ bc' = [bc EXCEPT ![Lowest(FreeB)] = [BIdle EXCEPT !.pc = "loop"]]
    /\ apc' = [apc EXCEPT ![v] = "init"]
    /\ UNCHANGED <<listclient, first, running, buffer, threshold, previous_frame,
                   screensize, resolution, cpc, broken, pr,
                   hist_pushed, hist_popped, hist_last, hist_sent, rx>>

\* Line 133, self.init(client) (292-294): the _capture thread is started; it
\* is at line 230.
InitCapture(v) ==
    /\ apc[v] = "init"
    /\ pr' = [pr EXCEPT ![Lowest(FreeP)] = [pc |-> "loop", img |-> None, active |-> FALSE]]
    /\ apc' = [apc EXCEPT ![v] = "clearfirst"]
    /\ UNCHANGED <<listclient, first, running, buffer, threshold, previous_frame,
                   screensize, resolution, cpc, broken, bc,
                   hist_pushed, hist_popped, hist_last, hist_sent, rx>>

\* Line 135: self.first = False
ClearFirst(v) ==
    /\ apc[v] = "clearfirst"
    /\ first' = FALSE
    /\ apc' = [apc EXCEPT ![v] = "startcmd"]
    /\ UNCHANGED <<listclient, running, buffer, threshold, previous_frame,
                   screensize, resolution, cpc, broken, bc, pr,
                   hist_pushed, hist_popped, hist_last, hist_sent, rx>>

\* Lines 137-138: the _handle_client_commands thread of this viewer is started.
StartCommand(v) ==
    /\ apc[v] = "startcmd"
    /\ cpc' = [cpc EXCEPT ![v] = "run"]
    /\ apc' = [apc EXCEPT ![v] = "done"]
    /\ UNCHANGED <<listclient, first, running, buffer, threshold, previous_frame,
                   screensize, resolution, broken, bc, pr,
                   hist_pushed, hist_popped, hist_last, hist_sent, rx>>

\* ------------------------------------------- _handle_client (Broadcaster)

\* Line 55: while self.running
BLoop(b) ==
    /\ bc[b].pc = "loop"
    /\ bc' = [bc EXCEPT ![b].pc = IF running THEN "get" ELSE "none"]
    /\ UNCHANGED <<listclient, first, running, buffer, threshold, previous_frame,
                   screensize, resolution,
                   apc, cpc, broken, pr, hist_pushed, hist_popped,
                   hist_last, hist_sent, rx>>

\* queue.Queue.get: blocks while the queue is empty, then takes the oldest item.
QueueCanGet(q) == q # <<>>
QueueFront(q) == Head(q)
\* A get that reads the oldest item and leaves it in the queue.
QueueAfterPeek(q) == q
QueueAfterGet(q) == Tail(q)

\* Line 56: data2send = self.buffer.get(); line 58 then creates the list
\* iterator, at index 0.
BGet(b) ==
    /\ bc[b].pc = "get"
    /\ QueueCanGet(buffer)
    /\ buffer' = QueueAfterGet(buffer)
    /\ hist_popped' = Append(hist_popped, QueueFront(buffer))
    /\ bc' = [bc EXCEPT ![b] = [pc |-> "iter", frame |-> QueueFront(buffer), idx |-> 0,
                                cur |-> 0, pending |-> SeqToSet(listclient)]]
    /\ UNCHANGED <<listclient, first, running, threshold, previous_frame,
                   screensize, resolution, apc, cpc, broken, pr,
                   hist_pushed, hist_last, hist_sent, rx>>

\* The list iterator of `for iclient in self.listclient` keeps an index: it
\* yields reg[idx] (0-based) while idx < len(reg) and ends otherwise.
IterHasNext(reg, idx) == idx < Len(reg)
IterItem(reg, idx) == reg[idx + 1]

\* Line 58, the iterator yields: iclient is the entry at its index, and the
\* index moves on by one.
BNext(b) ==
    /\ bc[b].pc = "iter"
    /\ IterHasNext(listclient, bc[b].idx)
    /\ bc' = [bc EXCEPT ![b].cur = IterItem(listclient, bc[b].idx),
                        ![b].idx = @ + 1,
                        ![b].pc = "send"]
    /\ UNCHANGED <<listclient, first, running, buffer, threshold, previous_frame,
                   screensize, resolution, apc, cpc, broken, pr,
                   hist_pushed, hist_popped, hist_last, hist_sent, rx>>

\* Line 58, the iterator is exhausted: the for loop ends.
BEndPass(b) ==
    /\ bc[b].pc = "iter"
    /\ ~IterHasNext(listclient, bc[b].idx)
    /\ bc' = [bc EXCEPT ![b].pc = "check"]
    /\ UNCHANGED <<listclient, first, running, buffer, threshold, previous_frame,
                   screensize, resolution, apc, cpc, broken, pr,
                   hist_pushed, hist_popped, hist_last, hist_sent, rx>>

\* Lines 59-61: iclient[2].sendall(data2send) returns, or raises because the
\* channel is closed (the handler of line 61 is entered).
BSendall(b) ==
    /\ bc[b].pc = "send"
    /\ LET v == bc[b].cur IN
       IF broken[v]
       THEN /\ bc' = [bc EXCEPT ![b].pc = "remove", ![b].pending = @ \ {v}]
            /\ UNCHANGED <<hist_last, hist_sent>>
       ELSE /\ bc' = [bc EXCEPT ![b].pc = "iter", ![b].cur = 0,
                                ![b].pending = @ \ {v}]
            /\ hist_last' = [hist_last EXCEPT ![v] = bc[b].frame]
            /\ hist_sent' = [hist_sent EXCEPT ![v] = Append(@, bc[b].frame)]
    /\ UNCHANGED <<listclient, first, running, buffer, threshold, previous_frame,
                   screensize, resolution, apc, cpc, broken, pr,
                   hist_pushed, hist_popped, rx>>

\* Lines 62-63: the channel is closed and the entry is removed from the very
\* list that is being iterated.  When another _handle_client thread has
\* removed it already, list.remove raises ValueError, which only line 73
\* catches, outside the while loop: the thread ends.
BRemove(b) ==
    /\ bc[b].pc = "remove"
    /\ LET v == bc[b].cur
           removed == ListRemove(listclient, v)
       IN /\ broken' = [broken EXCEPT ![v] = TRUE]
          /\ listclient' = removed.list
          /\ bc' = IF removed.raises
                   THEN [bc EXCEPT ![b] = BIdle]
                   ELSE [bc EXCEPT ![b].pc = "iter", ![b].cur = 0]
    /\ UNCHANGED <<first, running, buffer, threshold, previous_frame,
                   screensize, resolution, apc, cpc, pr,
                   hist_pushed, hist_popped, hist_last, hist_sent, rx>>

\* Line 65: if not self.listclient
BCheck(b) ==
    /\ bc[b].pc = "check"
    /\ bc' = [bc EXCEPT ![b] = [BIdle EXCEPT
                                  !.pc = IF listclient = <<>> THEN "stop" ELSE "loop"]]
    /\ UNCHANGED <<listclient, first, running, buffer, threshold, previous_frame,
                   screensize, resolution,
                   apc, cpc, broken, pr, hist_pushed, hist_popped,
                   hist_last, hist_sent, rx>>

\* Line 66: self.running = False
BStopRunning(b) ==
    /\ bc[b].pc = "stop"
    /\ running' = FALSE
    /\ bc' = [bc EXCEPT ![b].pc = "setfirst"]
    /\ UNCHANGED <<listclient, first, buffer, threshold, previous_frame,
                   screensize, resolution,
                   apc, cpc, broken, pr, hist_pushed, hist_popped,
                   hist_last, hist_sent, rx>>

\* Lines 67-69: self.first = True; break
BSetFirst(b) ==
    /\ bc[b].pc = "setfirst"
    /\ first' = TRUE
    /\ bc' = [bc EXCEPT ![b].pc = "none"]
    /\ UNCHANGED <<listclient, running, buffer, threshold, previous_frame,
                   screensize, resolution,
                   apc, cpc, broken, pr, hist_pushed, hist_popped,
                   hist_last, hist_sent, rx>>

\* ------------------------------------------------ _capture (FrameProducer)

\* cv2.absdiff, cvtColor, threshold and count_nonzero (lines 179-188) on two
\* screens: the number of pixels in which they differ.
NonZeroCount(a, b) == IF Lit[a] >= Lit[b] THEN Lit[a] - Lit[b] ELSE Lit[b] - Lit[a]

\* _detect_activity (lines 172-196) as one call that no other thread
\* interleaves with: the decision ("raise" when cv2.absdiff is handed the b""
\* of a failed capture) and the new self.previous_frame.
DetectActivity(th, prev, cur) ==
    IF th # 0
    THEN IF prev = None
         THEN [result |-> "false", prev |-> cur]
         ELSE IF cur = EmptyFrame \/ prev = EmptyFrame
              THEN [result |-> "raise", prev |-> prev]
              ELSE [result |-> IF NonZeroCount(cur, prev) > ActivityFloor
                               THEN "true" ELSE "false",
                    prev |-> cur]
    ELSE [result |-> "true", prev |-> prev]

\* cv2.resize (235) and cv2.imencode raise on the b"" of a failed capture, and
\* _imagenc (198-212) raises ValueError when the codec reports failure (retval
\* false) and TypeError for a format other than webp, jpeg, avif.  Nothing in
\* _capture catches them.
Imagenc(image, supported, retval) ==
    IF ~supported THEN "raise"
    ELSE IF image = EmptyFrame THEN "raise"
    ELSE IF ~retval THEN "raise"
    ELSE "bytes"

\* The position of the producer after line 233: the thread is gone ("none")
\* when an exception left _capture, and is back at line 230 when the gate
\* rejected the frame.
AfterDetect(detect) ==
    IF detect = "raise" THEN "none"
    ELSE IF detect = "false" THEN "loop"
    ELSE "encode"

\* Lines 173-174: the branch a call of _detect_activity takes; with no
\* threshold it returns True at once (196).
DetectBranch(th, prev) ==
    IF th = 0 THEN AfterDetect("true")
    ELSE IF prev = None THEN "first"
    ELSE "compare"

\* The position of the producer after lines 234-246.
AfterEncode(encoded) == IF encoded = "raise" THEN "none" ELSE "put"

\* Lines 164-170: line 165 stores the size as soon as ImageGrab.grab() has
\* returned (stored); the bare except gives b"" both when grab raised (nothing
\* stored) and when np.array or cvtColor raised after the size was stored.
CaptureScreenSize(ss, stored) == IF stored THEN NativeSize ELSE ss

\* Lines 234-237 for a frame that passed the gate: a resolution that is not
\* set is taken from self.screensize (whatever it holds).
AdoptResolution(res, ss) == IF res # <<>> THEN res ELSE ss

\* Line 230: while self.running
PLoop(p) ==
    /\ pr[p].pc = "loop"
    /\ pr' = [pr EXCEPT ![p] = IF running THEN [pc |-> "grab", img |-> None, active |-> FALSE] ELSE PIdle]
    /\ UNCHANGED <<listclient, first, running, buffer, threshold, previous_frame,
                   screensize, resolution, apc, cpc, broken, bc,
                   hist_pushed, hist_popped, hist_last, hist_sent, rx>>

\* Line 231, screen_image = self._capture_screen() (162-170), with the screen
\* img that the call returns (EmptyFrame: it failed) and whether line 165 was
\* passed.
PCaptureWith(p, img, stored) ==
    /\ pr[p].pc = "grab"
    /\ img \in Images => stored
    /\ screensize' = CaptureScreenSize(screensize, stored)
    /\ pr' = [pr EXCEPT ![p] = [pc |-> "detect", img |-> img, active |-> FALSE]]
    /\ UNCHANGED <<listclient, first, running, buffer, threshold, previous_frame,
                   resolution, apc, cpc, broken, bc,
                   hist_pushed, hist_popped, hist_last, hist_sent, rx>>

\* grabs: what the calls of _capture_screen return while the behaviour lasts.
PCapture(p, grabs) ==
    \E img \in grabs, stored \in BOOLEAN : PCaptureWith(p, img, stored)

\* Line 233 calls _detect_activity(screen_image); lines 173-174: the
\* threshold and self.previous_frame are tested.  With no threshold the call
\* returns True (196).
PDetect(p) ==
    /\ pr[p].pc = "detect"
    /\ pr' = [pr EXCEPT ![p].pc = DetectBranch(threshold, previous_frame)]
    /\ UNCHANGED <<listclient, first, running, buffer, threshold, previous_frame,
                   screensize, resolution, apc, cpc, broken, bc,
                   hist_pushed, hist_popped, hist_last, hist_sent, rx>>

\* Lines 175-176: the first frame is stored and the call returns False.
PStoreFirst(p) ==
    /\ pr[p].pc = "first"
    /\ previous_frame' = pr[p].img
    /\ pr' = [pr EXCEPT ![p] = [pc |-> AfterDetect("false"), img |-> None,
                                active |-> FALSE]]
    /\ UNCHANGED <<listclient, first, running, buffer, threshold,
                   screensize, resolution, apc, cpc, broken, bc,
                   hist_pushed, hist_popped, hist_last, hist_sent, rx>>

\* Lines 179-188: self.previous_frame is read and compared with the frame;
\* cv2.absdiff raises on the b"" of a failed capture, and nothing catches it.
PCompare(p) ==
    /\ pr[p].pc = "compare"
    /\ LET d == DetectActivity(threshold, previous_frame, pr[p].img)
       IN pr' = [pr EXCEPT ![p] = IF d.result = "raise"
                                   THEN PIdle
                                   ELSE [pc |-> "store", img |-> pr[p].img,
                                         active |-> d.result = "true"]]
    /\ UNCHANGED <<listclient, first, running, buffer, threshold, previous_frame,
                   screensize, resolution, apc, cpc, broken, bc,
                   hist_pushed, hist_popped, hist_last, hist_sent, rx>>

\* Lines 191-194: the frame is stored and the call returns the comparison.
PStore(p) ==
    /\ pr[p].pc = "store"
    /\ previous_frame' = pr[p].img
    /\ LET next == AfterDetect(IF pr[p].active THEN "true" ELSE "false")
       IN pr' = [pr EXCEPT ![p] = [pc |-> next,
                                   img |-> IF next = "encode" THEN pr[p].img ELSE None,
                                   active |-> FALSE]]
    /\ UNCHANGED <<listclient, first, running, buffer, threshold,
                   screensize, resolution, apc, cpc, broken, bc,
                   hist_pushed, hist_popped, hist_last, hist_sent, rx>>

\* Lines 234-246 with the codec's answers: resize or adopt the resolution,
\* encode, build the frame.  maxf bounds the wire frames of one behaviour.
PEncodeWith(p, maxf, supported, retval) ==
    /\ pr[p].pc = "encode"
    /\ LET next == AfterEncode(Imagenc(pr[p].img, supported, retval))
       IN /\ next = "put" =>
                hist_pushed + Cardinality({q \in PSlots : pr[q].pc = "put"}) < maxf
          /\ resolution' = AdoptResolution(resolution, screensize)
          /\ pr' = [pr EXCEPT ![p] = [pc |-> next, img |-> None, active |-> FALSE]]
    /\ UNCHANGED <<listclient, first, running, buffer, threshold, previous_frame,
                   screensize, apc, cpc, broken, bc,
                   hist_pushed, hist_popped, hist_last, hist_sent, rx>>

PEncode(p, maxf) ==
    \E supported \in BOOLEAN, retval \in BOOLEAN : PEncodeWith(p, maxf, supported, retval)

\* A queue built without maxsize: put never blocks.
QueueCanPutUnbounded(q) == TRUE

\* queue.Queue.put: blocks while the queue holds maxsize items.
QueueCanPut(q) == Len(q) < BufferCap

\* Line 249: self.buffer.put(data2send)
PPut(p) ==
    /\ pr[p].pc = "put"
    /\ QueueCanPut(buffer)
    /\ buffer' = Append(buffer, hist_pushed + 1)
    /\ hist_pushed' = hist_pushed + 1
    /\ pr' = [pr EXCEPT ![p] = [pc |-> "loop", img |-> None, active |-> FALSE]]
    /\ UNCHANGED <<listclient, first, running, threshold, previous_frame,
                   screensize, resolution,
                   apc, cpc, broken, bc, hist_popped, hist_last, hist_sent, rx>>

\* ------------------------------- _handle_client_commands (CommandChannel)

\* What the channel hands to the read of the 4-byte length prefix: on an open
\* channel the bytes arrive ("ok"); on a closed one recv returns b"" at once
\* ("eof") or after fewer than four bytes ("short"), or raises socket.error.
PrefixReads(isbroken) == IF isbroken THEN {"eof", "short", "sockerr"} ELSE {"ok"}

\* What the read of the payload meets after a prefix that arrived: the stream
\* ends or fails inside the payload (the channel is closed from then on), the
\* bytes are no pickle ("invalid"), they unpickle to a falsy value, to a
\* click or key command that handle_commands carries out ("command"), to a
\* command on which it raises, or to a move_mouse command.
PayloadReads ==
    {"eof", "sockerr", "invalid", "falsy", "command", "command_raises", "move_mouse"}

\* Lines 83-85 and 94-95: _receive_exact(client_socket, 4) gives None on "eof"
\* and "short" (break at line 85); socket.error is caught at line 94 (break).
PrefixOutcome(read) == IF read = "ok" THEN "payload" ELSE "ended"

\* Lines 88-97: pickle.loads raises on None (the stream ended inside the
\* payload) and on bytes that are no pickle; a falsy command is skipped;
\* handle_commands may raise.  Only socket.error is caught inside the loop
\* (break); every other exception reaches line 96, which is outside the
\* `while True`, so the loop ends on each of them.
PayloadOutcome(read) ==
    CASE read = "sockerr" -> "ended"
      [] read = "eof" -> "ended"
      [] read = "invalid" -> "ended"
      [] read = "falsy" -> "run"
      [] read = "command" -> "run"
      [] read = "command_raises" -> "ended"

\* Lines 79-95, one round of the loop whose prefix read fails.
CmdPrefixFails(v, read) ==
    /\ cpc[v] = "run"
    /\ read \in PrefixReads(broken[v])
    /\ PrefixOutcome(read) = "ended"
    /\ cpc' = [cpc EXCEPT ![v] = "ended"]
    /\ UNCHANGED <<listclient, first, running, buffer, threshold, previous_frame,
                   screensize, resolution,
                   apc, broken, bc, pr, hist_pushed, hist_popped,
                   hist_last, hist_sent, rx>>

\* The reference size of _translate_coordinates (215-220): self.resolution
\* when it is truthy, 1920 x 1090 otherwise.
Reference(res) == IF res # <<>> THEN res ELSE DefaultReference

\* _translate_coordinates (214-221) indexes self.screensize, which is () until
\* a capture has stored a size (IndexError), and divides by the reference
\* (ZeroDivisionError).
TranslateRaises(ss, res) ==
    \/ Len(ss) = 0
    \/ Reference(res)[1] = 0
    \/ Reference(res)[2] = 0

\* The largest j with 2^j <= n, for n >= 1.
RECURSIVE FloorLog2(_)
FloorLog2(n) == IF n < 2 THEN 0 ELSE 1 + FloorLog2(n \div 2)

\* The least k with b <= a * 2^k, for a >= 1.
RECURSIVE Doublings(_, _)
Doublings(a, b) == IF a >= b THEN 0 ELSE 1 + Doublings(2 * a, b)

\* The binary exponent of the quotient a / b: the e with 2^e <= a / b < 2^(e+1).
QuotientExponent(a, b) == IF a >= b THEN FloorLog2(a \div b) ELSE 0 - Doublings(a, b)

\* (v * 2^k) % m
RECURSIVE DoubleMod(_, _, _)
DoubleMod(v, k, m) == IF k = 0 THEN v % m ELSE DoubleMod((2 * v) % m, k - 1, m)

\* int(x * (a / b)) of lines 216-220 for x >= 0, a >= 1, b >= 1, in IEEE 754
\* double precision.  a / b is rounded to 53 significant bits first: r / b is
\* the part of the quotient below its last bit.  When x * a is no multiple of
\* b the product is at least 1 / b away from an integer and the rounding
\* cannot reach it.  When it is a multiple N, the float product is N unless
\* the quotient was rounded down (0 < 2r < b) by more than half the spacing of
\* the doubles just below N, and then it is below N and int() gives N - 1.
ScaleTrunc(x, a, b) ==
    IF x = 0 THEN 0
    ELSE IF (x * a) % b # 0 THEN (x * a) \div b
    ELSE LET N == (x * a) \div b
             e == QuotientExponent(a, b)
             r == DoubleMod(a % b, 52 - e, b)
             j == FloorLog2(N)
             lim == IF N = 2 ^ j THEN b * 2 ^ (j - e) ELSE b * 2 ^ (j - e + 1)
         IN IF r = 0 \/ 2 * r > b THEN N
            ELSE IF 4 * x * r <= lim THEN N
            ELSE N - 1

\* int() truncates toward zero, and the product of a negative coordinate is the
\* negated product of its absolute value.
Scale(x, a, b) == IF x >= 0 THEN ScaleTrunc(x, a, b) ELSE 0 - ScaleTrunc(0 - x, a, b)

\* _translate_coordinates (214-221), when it does not raise:
\* int(x * (screensize[i] / reference[i])).
TranslateCoordinates(x, y, ss, res) ==
    LET ref == Reference(res)
    IN <<Scale(x, ss[1], ref[1]), Scale(y, ss[2], ref[2])>>

\* Lines 255-258 inside the loop of 78-97: a move_mouse command is translated
\* and carried out; the exception of the translation leaves the loop through
\* line 96.
MoveMouseOutcome(x, y, ss, res) == IF TranslateRaises(ss, res) THEN "ended" ELSE "run"

\* Lines 79-95, one round of the loop whose prefix arrives.
CmdMessage(v, read) ==
    /\ cpc[v] = "run"
    /\ "ok" \in PrefixReads(broken[v])
    /\ read \in PayloadReads
    /\ IF read = "move_mouse"
       THEN \E x \in Coords, y \in Coords :
               cpc' = [cpc EXCEPT ![v] = MoveMouseOutcome(x, y, screensize, resolution)]
       ELSE cpc' = [cpc EXCEPT ![v] = PayloadOutcome(read)]
    /\ broken' = [broken EXCEPT ![v] = read \in {"eof", "sockerr"}]
    /\ UNCHANGED <<listclient, first, running, buffer, threshold, previous_frame,
                   screensize, resolution,
                   apc, bc, pr, hist_pushed, hist_popped,
                   hist_last, hist_sent, rx>>

CmdRound(v) ==
    \/ \E read \in {"eof", "short", "sockerr"} : CmdPrefixFails(v, read)
    \/ \E read \in PayloadReads : CmdMessage(v, read)

\* ------------------------------------------------------------ environment

\* The viewer's channel closes (the peer goes away, or the transport fails):
\* from then on sendall raises and recv ends.
Disconnect(v) ==
    /\ apc[v] \notin {"idle", "timedout"}
    /\ ~broken[v]
    /\ broken' = [broken EXCEPT ![v] = TRUE]
    /\ UNCHANGED <<listclient, first, running, buffer, threshold, previous_frame,
                   screensize, resolution,
                   apc, cpc, bc, pr, hist_pushed, hist_popped,
                   hist_last, hist_sent, rx>>

\* ------------------------------------------------------------------ Next

\* One step of one thread of the program, with the connections V, at most maxf
\* wire frames and the results grabs of capturing the screen.
ThreadStep(V, maxf, grabs) ==
    \/ \E v \in V : Handshake(v)
    \/ \E v \in V : CheckFirst(v)
    \/ \E v \in V : SetRunning(v)
    \/ \E v \in V : StartBroadcaster(v)
    \/ \E v \in V : InitCapture(v)
    \/ \E v \in V : ClearFirst(v)
    \/ \E v \in V : StartCommand(v)
    \/ \E b \in BSlots : BLoop(b)
    \/ \E b \in BSlots : BGet(b)
    \/ \E b \in BSlots : BNext(b)
    \/ \E b \in BSlots : BEndPass(b)
    \/ \E b \in BSlots : BSendall(b)
    \/ \E b \in BSlots : BRemove(b)
    \/ \E b \in BSlots : BCheck(b)
    \/ \E b \in BSlots : BStopRunning(b)
    \/ \E b \in BSlots : BSetFirst(b)
    \/ \E p \in PSlots : PLoop(p)
    \/ \E p \in PSlots : PCapture(p, grabs)
    \/ \E p \in PSlots : PDetect(p)
    \/ \E p \in PSlots : PStoreFirst(p)
    \/ \E p \in PSlots : PCompare(p)
    \/ \E p \in PSlots : PStore(p)
    \/ \E p \in PSlots : PEncode(p, maxf)
    \/ \E p \in PSlots : PPut(p)

\* One step of one thread, or of the environment: a round of a command loop
\* on what the viewer sent, or a channel that closes.
Step(V, maxf, grabs) ==
    \/ ThreadStep(V, maxf, grabs)
    \/ \E v \in V : CmdRound(v)
    \/ \E v \in V : Disconnect(v)

\* Two connections whose viewers send no command, on a screen that does not
\* change and is captured every time.
PlainGrabs == {"busy"}
Next ==
    \/ ThreadStep(Viewers, MaxFrames, PlainGrabs)
    \/ \E v \in Viewers : Disconnect(v)

Spec == Init /\ [][Next]_vars

\* The same program with one connection and enough frames to fill the queue.
QViewers == {1}
NextQ == Step(QViewers, QFrames, Grabs)

SpecQ == Init /\ [][NextQ]_vars

\* The same program with two connections, for the attach handshake.
HViewers == {1, 2}
\* One screen, which the activity gate rejects after itself, and the failure.
HGrabs == {"busy", EmptyFrame}
NextH == Step(HViewers, HFrames, HGrabs)

SpecH == Init /\ [][NextH]_vars

\* ------------- _handle_client_commands and _receive_exact, byte by byte

Bytes == {0, 1}

\* Every sequence of at most n bytes.
RECURSIVE StreamsUpTo(_)
StreamsUpTo(n) ==
    IF n = 0 THEN {<<>>}
    ELSE LET shorter == StreamsUpTo(n - 1)
         IN shorter \cup {Append(t, c) : t \in {u \in shorter : Len(u) = n - 1}, c \in Bytes}

Min(a, b) == IF a <= b THEN a ELSE b

\* struct.unpack('!I', data)[0]: four bytes, big-endian, unsigned.
Unpack(d) == d[1] * 16777216 + d[2] * 65536 + d[3] * 256 + d[4]

\* A recv that asks for everything _receive_exact was asked for.
RecvMaxWhole(n, data) == n

\* Line 106: socket.recv(n - len(data)) returns at most that many bytes.
RecvMax(n, data) == n - Len(data)

\* Line 79-83, the loop starts a round: _receive_exact(client_socket, 4).
RxPrefix(r) == [r EXCEPT !.pc = "prefix", !.n = 4, !.data = <<>>]

\* The viewer sends the bytes orig and closes; the command loop starts.
InitR ==
    /\ InitState
    /\ threshold = 0
    /\ \E orig \in StreamsUpTo(MaxStream) :
          rx = RxPrefix([RxIdle EXCEPT !.orig = orig, !.stream = orig])

program == <<listclient, first, running, buffer, threshold, previous_frame,
             screensize, resolution, apc, cpc, broken, bc, pr,
             hist_pushed, hist_popped, hist_last, hist_sent>>

\* Lines 105-109: recv hands over k bytes, at least one and at most what was
\* asked for, however the transport cut the stream.
RxRecv ==
    /\ rx.pc \in {"prefix", "payload"}
    /\ Len(rx.data) < rx.n
    /\ rx.stream # <<>>
    /\ \E k \in 1..Min(RecvMax(rx.n, rx.data), Len(rx.stream)) :
          rx' = [rx EXCEPT !.data = @ \o SubSeq(rx.stream, 1, k),
                           !.stream = SubSeq(@, k + 1, Len(@)),
                           !.recvs = @ + 1]
    /\ UNCHANGED program

\* Lines 106-108: the stream has ended, recv returns b"" and _receive_exact
\* None.  For the prefix that is the break of line 85; for the payload
\* pickle.loads(None) raises TypeError, which leaves the loop through line 96.
RxEof ==
    /\ rx.pc \in {"prefix", "payload"}
    /\ Len(rx.data) < rx.n
    /\ rx.stream = <<>>
    /\ rx' = [rx EXCEPT !.pc = "ended", !.why = "eof", !.recvs = @ + 1]
    /\ UNCHANGED program

\* Line 106 raises socket.error: the break of line 95.
RxSockErr ==
    /\ rx.pc \in {"prefix", "payload"}
    /\ Len(rx.data) < rx.n
    /\ rx' = [rx EXCEPT !.pc = "ended", !.why = "sockerr", !.stream = <<>>]
    /\ UNCHANGED program

\* Lines 105, 110 and 84-88: the prefix is complete; its value is the length
\* of the payload (struct.unpack raises on anything but four bytes).
RxPrefixDone ==
    /\ rx.pc = "prefix"
    /\ Len(rx.data) >= rx.n
    /\ rx' = IF Len(rx.data) = 4
             THEN [rx EXCEPT !.pc = "payload", !.n = Unpack(rx.data), !.data = <<>>]
             ELSE [rx EXCEPT !.pc = "ended", !.why = "raise"]
    /\ UNCHANGED program

\* Lines 105, 110 and 89-92: the payload is complete and pickle.loads is given
\* it: b"" is no pickle (EOFError); other bytes are no pickle, a falsy value,
\* or a command, which is dispatched and may raise.
RxPayloadDone ==
    /\ rx.pc = "payload"
    /\ Len(rx.data) >= rx.n
    /\ \E read \in {"invalid", "falsy", "command", "command_raises"} :
          /\ rx.data = <<>> => read = "invalid"
          /\ LET r == [rx EXCEPT !.msgs = @ + 1,
                                 !.dispatched =
                                     IF read \in {"command", "command_raises"}
                                     THEN Append(@, [at |-> rx.msgs + 1, payload |-> rx.data])
                                     ELSE @]
             IN rx' = IF PayloadOutcome(read) = "run"
                      THEN RxPrefix(r)
                      ELSE [r EXCEPT !.pc = "ended", !.why = "raise"]
    /\ UNCHANGED program

NextR == RxRecv \/ RxEof \/ RxSockErr \/ RxPrefixDone \/ RxPayloadDone

SpecR == InitR /\ [][NextR]_vars

\* ------------------------------------------------------------- fairness

\* The steps of one thread.  Threads are scheduled preemptively: a thread that
\* can take its next step is given the processor sooner or later.  What the
\* viewers do (connect, send commands, go away) is not the program's to make
\* happen, so Handshake, CmdRound and Disconnect carry no fairness.
AttachStep(v) ==
    CheckFirst(v) \/ SetRunning(v) \/ StartBroadcaster(v) \/ InitCapture(v)
        \/ ClearFirst(v) \/ StartCommand(v)
BroadcasterStep(b) ==
    BLoop(b) \/ BGet(b) \/ BNext(b) \/ BEndPass(b) \/ BSendall(b) \/ BRemove(b)
        \/ BCheck(b) \/ BStopRunning(b) \/ BSetFirst(b)
ProducerStep(p, maxf) ==
    PLoop(p) \/ PCapture(p, Grabs) \/ PDetect(p) \/ PStoreFirst(p) \/ PCompare(p)
        \/ PStore(p) \/ PEncode(p, maxf) \/ PPut(p)

Fairness(V, maxf) ==
    /\ \A v \in V : WF_vars(AttachStep(v))
    /\ \A b \in BSlots : WF_vars(BroadcasterStep(b))
    /\ \A p \in PSlots : WF_vars(ProducerStep(p, maxf))

\* SpecQ under fair scheduling of the threads.
LiveQ == SpecQ /\ Fairness(QViewers, QFrames)

\* ------------------------------------------------------------ properties

\* No handle_new_client call is between its first and its last line.
NoAttachInProgress == \A v \in Viewers : apc[v] \in {"idle", "timedout", "done"}

BroadcasterRunning == BAliveSet # {}
ProducerRunning == PAliveSet # {}

\* C1: whenever no attach call is part-way through, a registry that holds a
\* viewer has a running Broadcaster (the half of "the pipeline runs iff the
\* registry is non-empty" that the attach / end-of-pass interleavings decide).
C1_RegistryHasBroadcaster ==
    (NoAttachInProgress /\ listclient # <<>>) => BroadcasterRunning

\* C2: at any time at most one Broadcaster thread and at most one
\* FrameProducer thread are alive.
C2_AtMostOnePipeline ==
    Cardinality(BAliveSet) <= 1 /\ Cardinality(PAliveSet) <= 1

\* C3: when a fan-out pass is over, the frame was sent (or the send tried) to
\* every viewer that was in the registry when the pass began.
C3_PassReachesEveryViewer ==
    \A b \in BSlots : bc[b].pc = "check" => bc[b].pending = {}

\* C4: a handshake that times out changes neither the registry, nor the
\* first/running flags, nor the running threads, and starts no CommandChannel.
C4_TimeoutNoEffect ==
    [][\A v \in Viewers :
          (apc[v] # "timedout" /\ apc'[v] = "timedout")
              => UNCHANGED <<listclient, first, running, bc, pr, cpc>>]_vars

\* A handshake has timed out while a session with a registered viewer runs.
C4_Witness ==
    \E v \in Viewers : apc[v] = "timedout" /\ running /\ listclient # <<>>

\* C5: the queue never holds more than 10 frames (so a push onto 10 frames
\* waits for a pop, and one pop admits one push), and the frames popped so
\* far followed by the frames queued are all frames pushed, in push order.
C5_BoundedFifoQueue ==
    /\ Len(buffer) <= BufferCap
    /\ hist_popped \o buffer = [i \in 1..hist_pushed |-> i]

\* The queue is full again after an eleventh push, which a pop let through,
\* and the next push is waiting.
C5_Witness ==
    /\ Len(buffer) = BufferCap
    /\ hist_pushed > BufferCap
    /\ \E p \in PSlots : pr[p].pc = "put"

\* C6: every viewer receives its frames in the order in which they were
\* dequeued (frame ids grow in dequeue order).
C6_PerViewerOrder ==
    [][\A v \in Viewers : hist_last'[v] >= hist_last[v]]_vars

\* The session is idle: the Broadcaster found the registry empty and cleared
\* running, and no attach has registered a viewer since.
SessionIdle == ~running /\ listclient = <<>>

\* C7: while the session is idle no frame is pushed onto the queue.
C7_NoFrameWhileIdle ==
    [][SessionIdle => hist_pushed' = hist_pushed]_vars

\* C8: the round in which a viewer's command loop ends on EOF, a short read of
\* the length prefix or a transport error leaves that viewer out of the
\* registry.
C8_LoopEndDetaches ==
    [][\A v \in Viewers :
          (\/ \E read \in {"eof", "short", "sockerr"} : CmdPrefixFails(v, read)
           \/ CmdMessage(v, "sockerr"))
              => ~InList(listclient', v)]_vars

\* C9: a producer that found the session active is still running after the
\* capture and encoding of that iteration, whatever they did.
C9_ProducerSurvivesIteration ==
    [][\A p \in PSlots :
          pr[p].pc \in {"grab", "detect", "first", "compare", "store", "encode"}
              => pr'[p].pc # "none"]_vars

\* C10: after a message whose payload is not a valid command the command loop
\* of that viewer is still running.
C10_InvalidMessageSkipped ==
    [][\A v \in Viewers : CmdMessage(v, "invalid") => cpc'[v] = "run"]_vars

\* C11: after a command on which handle_commands (or the InputInjector call in
\* it) raises, the command loop of that viewer is still running, so that its
\* next command is read and dispatched.
C11_DispatchFailureSwallowed ==
    [][\A v \in Viewers : CmdMessage(v, "command_raises") => cpc'[v] = "run"]_vars

\* C12: with a threshold configured, every call of _detect_activity leaves
\* previous_frame equal to the frame it was passed, and the call that finds no
\* previous frame answers False (the producer goes round its loop again): so
\* it is in the step that ends a call, by a return or by an exception.
C12_DetectorTracksLastFrame ==
    [][\A p \in PSlots :
          (/\ pr[p].pc \in {"first", "compare", "store"}
           /\ pr'[p].pc \notin {"first", "compare", "store"})
          => /\ previous_frame' = pr[p].img
             /\ pr[p].pc = "first" => pr'[p].pc = "loop"]_vars

\* C13: wherever a move_mouse command can be dispatched, the translation of
\* (0, 0) is (0, 0), and with the resolution equal to the native screen size
\* every (x, y) is translated to itself.
C13_TranslateIdentityAndOrigin ==
    \A v \in Viewers :
        cpc[v] = "run" =>
            /\ ~TranslateRaises(screensize, resolution)
            /\ TranslateCoordinates(0, 0, screensize, resolution) = <<0, 0>>
            /\ resolution = screensize =>
                   \A x \in Coords, y \in Coords :
                       TranslateCoordinates(x, y, screensize, resolution) = <<x, y>>

\* C14: a send failure on one viewer changes the registry only by removing
\* that viewer, the others staying registered in the same relative order; a
\* viewer whose sends succeed is never removed; and the session stays active
\* while any viewer remains: it is set idle only with an empty registry.
C14_SendFailureFrame ==
    [][/\ \A b \in BSlots :
             /\ BSendall(b) => listclient' = listclient
             /\ BRemove(b) =>
                    listclient' = SelectSeq(listclient, LAMBDA w : w # bc[b].cur)
       /\ \A v \in Viewers :
             (InList(listclient, v) /\ ~InList(listclient', v)) => broken[v]
       /\ (running /\ ~running') => listclient = <<>>]_vars

\* C15: once the session has been set idle, a FrameProducer that is still
\* alive eventually terminates (one connection, so no further attach).
C15_ProducerStopsWhenIdle ==
    (~running /\ ProducerRunning) ~> ~ProducerRunning

\* No element occurs twice in the sequence s.
NoRepeat(s) == \A i, j \in 1..Len(s) : i # j => s[i] # s[j]

\* C16: a frame is taken from the queue at most once and is in the queue no
\* longer once taken; a Broadcaster that is not in a fan-out pass holds no
\* frame; and no viewer is sent the same frame twice.
C16_FrameOnceEach ==
    /\ NoRepeat(hist_popped)
    /\ SeqToSet(hist_popped) \cap SeqToSet(buffer) = {}
    /\ \A b \in BSlots : bc[b].pc \notin {"iter", "send", "remove", "check"} => bc[b].frame = 0
    /\ \A v \in Viewers : NoRepeat(hist_sent[v])

\* A viewer was sent a frame in a pass that removed another viewer, which had
\* attached after the pipeline was started.
C16_Witness ==
    \E v, w \in Viewers :
        /\ v # w
        /\ hist_sent[v] # <<>>
        /\ apc[w] = "done" /\ broken[w] /\ ~InList(listclient, w)
        /\ \A b \in BSlots : bc[b].pc \in {"none", "loop"}

\* C17: in a successful attach the viewer is appended first (no thread is
\* started by that step); the Broadcaster and the FrameProducer are started
\* next, before the viewer's CommandChannel and only if the session was idle;
\* the CommandChannel is started by the last step of the attach, so that an
\* attach that is over has started exactly one.
C17_AttachOrder ==
    [][\A v \in Viewers :
          /\ (apc[v] \in {"idle", "timedout"} /\ apc'[v] = "checkfirst")
                 => /\ listclient' = Append(listclient, v)
                    /\ UNCHANGED <<bc, pr, cpc>>
          /\ SetRunning(v) => ~running
          /\ (StartBroadcaster(v) \/ InitCapture(v)) => cpc[v] = "none"
          /\ (cpc[v] = "none" /\ cpc'[v] # "none")
                 => (apc[v] = "startcmd" /\ apc'[v] = "done")
          /\ apc'[v] = "done" => cpc'[v] # "none"]_vars

\* The messages that the byte stream s holds whole, in order: a four-byte
\* length and that many bytes of payload each.
RECURSIVE Messages(_)
Messages(s) ==
    IF Len(s) < 4 THEN <<>>
    ELSE LET len == Unpack(s)
         IN IF Len(s) < 4 + len THEN <<>>
            ELSE <<SubSeq(s, 5, 4 + len)>> \o Messages(SubSeq(s, 5 + len, Len(s)))

\* C18: whatever the cuts of the transport, _receive_exact collects no more
\* than n bytes and they are the next bytes of the stream in order; it returns
\* None only when the stream ended with fewer than n bytes collected; and
\* every command dispatched was built from a whole prefix and a whole payload
\* (it is one of the whole messages of the stream, at its place).
C18_ReceiveExact ==
    LET pos == Len(rx.orig) - Len(rx.stream)
        whole == Messages(rx.orig)
    IN /\ rx.pc \in {"prefix", "payload"} =>
             /\ Len(rx.data) <= rx.n
             /\ rx.data = SubSeq(rx.orig, pos - Len(rx.data) + 1, pos)
       /\ rx.why = "eof" => (Len(rx.data) < rx.n /\ rx.stream = <<>>)
       /\ \A i \in 1..Len(rx.dispatched) :
             /\ rx.dispatched[i].at <= Len(whole)
             /\ rx.dispatched[i].payload = whole[rx.dispatched[i].at]

\* Two commands were dispatched, their bytes having arrived one at a time, and
\* the loop then ended on the end of the stream.
C18_Witness ==
    /\ Len(rx.dispatched) = 2
    /\ rx.recvs = Len(rx.orig) + 1
    /\ rx.why = "eof"

\* C19: at every transition of the session from idle to active the queue is
\* empty, so that no frame pushed before the session went idle is sent to a
\* viewer of the new session.
C19_NoLeftoverFrames ==
    [][(~running /\ running') => buffer = <<>>]_vars

\* C20: under fair scheduling, and whatever a running FrameProducer does
\* (also when the activity gate rejects every frame), a registered viewer whose
\* channel is broken is eventually removed from the registry, and when it is
\* the only one the session eventually is idle.
C20_BrokenViewerRemoved ==
    /\ \A v \in Viewers :
          (broken[v] /\ InList(listclient, v))
              ~> (~InList(listclient, v) \/ ~ProducerRunning)
    /\ (\E v \in Viewers : broken[v] /\ listclient = <<v>>)
          ~> (listclient # <<>> \/ ~running \/ ~ProducerRunning)

====
